---- MODULE Spec2Model ----
(***************************************************************************)
(* Client-side session and transport layer of the vocabulary mini program: *)
(* utils/request.js (endpoint store, one-shot failover), pages/chat,       *)
(* pages/home (suggestion normalizer) and pages/history (learning log).    *)
(*                                                                         *)
(* Strings are sequences of tokens.  A token is one character class of the *)
(* text the code scans: a word, a blank, a pipe, the opening tag           *)
(* <learned_json>, the closing tag </learned_json>, or a JSON document.    *)
(***************************************************************************)
EXTENDS Integers, Sequences, FiniteSets, TLC

VARIABLES
    BASE_URL,          \* storage key 'BASE_URL' (NoValue when absent)
    session_id,        \* storage key 'session_id'
    learning_history,  \* storage key 'learning_history' (<<>> when absent)
    storeOk,           \* "ok"; "nowrite" while wx.setStorageSync throws; "down" while
                       \* wx.getStorageSync throws too
    now,               \* Date.now()
    reqs,              \* the requests issued through post / get, in order of issue
    lastSettled,       \* observer: the request that settled last, as its caller saw it
    loaded,            \* the pages whose onLoad has run
    messages,          \* chat page: data.messages
    inputText,         \* chat page: data.inputText
    sending,           \* chat page: data.sending
    clearing,          \* chat page: data.clearing
    lastMessageId,     \* chat page: data.lastMessageId
    sessionId,         \* chat page: data.sessionId
    sessionShort,      \* chat page: data.sessionShort
    suggestion,        \* home page: data.suggestion
    items,             \* history page: data.items
    toast,             \* title of the last wx.showToast
    uncaught,          \* the last handler ended with an exception it did not catch
    inserted,          \* observer: sizes of the history saves since the log was last empty
    histOps,           \* observer: number of history operations driven (history runs)
    input              \* the server response handed to fetchSuggestion (normalizer runs)

storage == <<BASE_URL, session_id, learning_history>>
chatPage == <<messages, inputText, sending, clearing, lastMessageId, sessionId, sessionShort>>
vars == <<BASE_URL, session_id, learning_history, storeOk, now, reqs, lastSettled, loaded,
          messages,
          inputText, sending, clearing, lastMessageId, sessionId, sessionShort,
          suggestion, items, toast, uncaught, inserted, histOps, input>>

-----------------------------------------------------------------------------
(* Bounds of the model *)

MaxClock == 1
MaxRequests == 2
MaxParts == 4
MaxHistOps == 3

-----------------------------------------------------------------------------
(* The key-value store *)

StoreStates == {"ok", "nowrite", "down"}

\* wx.getStorageSync returns / wx.setStorageSync returns, rather than throw.
CanRead == storeOk # "down"
CanWrite == storeOk = "ok"

-----------------------------------------------------------------------------
(* Values *)

NoValue == [t |-> "none"]          \* '' / undefined: what a missing key reads as
Null == [t |-> "null"]             \* JSON null
Str(s) == <<s>>                    \* a string literal of the source, as one token

OPEN == "<learned_json>"
CLOSE == "</learned_json>"
SP == " "
PIPE == "|"

\* The JSON documents a reply may carry, each one token of the text.
JList == "[{cat}]"
JListNull == "[null]"
JEmpty == "[]"
JObject == "{}"

ItemCat == [t |-> "obj", word |-> Str("cat"), topic |-> Str("animals"),
            level |-> Str("Beginner"), hint |-> Str("a pet")]
ItemDog == [t |-> "obj", word |-> Str("dog"), topic |-> Str("animals"),
            level |-> Str("Beginner"), hint |-> Str("a loyal pet")]

-----------------------------------------------------------------------------
(* String primitives used by the pages *)

IsSpace(c) == c = SP

RECURSIVE TrimLeft(_)
TrimLeft(s) ==
    IF s = <<>> THEN <<>>
    ELSE IF IsSpace(Head(s)) THEN TrimLeft(Tail(s)) ELSE s

RECURSIVE TrimRight(_)
TrimRight(s) ==
    IF s = <<>> THEN <<>>
    ELSE IF IsSpace(s[Len(s)]) THEN TrimRight(SubSeq(s, 1, Len(s) - 1)) ELSE s

\* String.prototype.trim
Trim(s) == TrimRight(TrimLeft(s))

\* Index of the first CLOSE at or after position i, 0 when there is none.
RECURSIVE FirstClose(_, _)
FirstClose(s, i) ==
    IF i > Len(s) THEN 0
    ELSE IF s[i] = CLOSE THEN i ELSE FirstClose(s, i + 1)

\* text.replace(/<learned_json>[\s\S]*?<\/learned_json>/g, ''): scanning from the
\* left, every opening tag that has a closing tag after it is removed together
\* with everything up to the first such closing tag.
RECURSIVE StripFrom(_, _)
StripFrom(s, i) ==
    IF i > Len(s) THEN <<>>
    ELSE IF s[i] = OPEN /\ FirstClose(s, i + 1) # 0
         THEN StripFrom(s, FirstClose(s, i + 1) + 1)
         ELSE <<s[i]>> \o StripFrom(s, i + 1)

StripBlocks(s) == StripFrom(s, 1)

\* Index of the first opening tag that has a closing tag after it, 0 when none.
RECURSIVE FirstBlock(_, _)
FirstBlock(s, i) ==
    IF i > Len(s) THEN 0
    ELSE IF s[i] = OPEN /\ FirstClose(s, i + 1) # 0 THEN i
    ELSE FirstBlock(s, i + 1)

\* text.match(/<learned_json>\s*([\s\S]*?)\s*<\/learned_json>/): null (NoValue)
\* when no block matches, else capture group 1: the content of the first block
\* without the blanks around it.
MatchBlock(s) ==
    LET o == FirstBlock(s, 1) IN
    IF o = 0 THEN NoValue
    ELSE [t |-> "match", g1 |-> Trim(SubSeq(s, o + 1, FirstClose(s, o + 1) - 1))]

\* JSON.parse: the value of a JSON document, or a SyntaxError.
JSONParse(s) ==
    IF s = <<JList>> THEN [t |-> "list", v |-> <<ItemCat>>]
    ELSE IF s = <<JListNull>> THEN [t |-> "list", v |-> <<Null>>]
    ELSE IF s = <<JEmpty>> THEN [t |-> "list", v |-> <<>>]
    ELSE IF s = <<JObject>> THEN [t |-> "obj"]
    ELSE [t |-> "SyntaxError"]

\* s.split('|'): the pieces between the pipes, always at least one.
RECURSIVE SplitPipe(_)
SplitPipe(s) ==
    IF \A i \in 1..Len(s) : s[i] # PIPE THEN <<s>>
    ELSE LET p == CHOOSE i \in 1..Len(s) :
                     s[i] = PIPE /\ \A j \in 1..(i - 1) : s[j] # PIPE
         IN <<SubSeq(s, 1, p - 1)>> \o SplitPipe(SubSeq(s, p + 1, Len(s)))

\* parts.map(s => s.trim())
RECURSIVE MapTrim(_)
MapTrim(parts) ==
    IF parts = <<>> THEN <<>> ELSE <<Trim(Head(parts))>> \o MapTrim(Tail(parts))

\* parts.join(' | ')
RECURSIVE JoinPipe(_)
JoinPipe(parts) ==
    IF parts = <<>> THEN <<>>
    ELSE IF Len(parts) = 1 THEN parts[1]
    ELSE parts[1] \o <<SP, PIPE, SP>> \o JoinPipe(Tail(parts))

-----------------------------------------------------------------------------
(* JavaScript values of a server response *)

StrV(s) == [t |-> "str", s |-> s]
ListV(v) == [t |-> "list", v |-> v]
ObjV == [t |-> "obj"]

\* A settled promise.
Resolved(v) == [t |-> "resolved", value |-> v]
Rejected(e) == [t |-> "rejected", error |-> e]

\* Array.isArray(x) && x.length > 0
IsNonEmptyArray(x) == x.t = "list" /\ Len(x.v) > 0

\* A response body: null / undefined, or an object with reply and learned.
Body(reply, learned) == [t |-> "obj", reply |-> reply, learned |-> learned]

\* (res && res.reply) ? String(res.reply) : ''
ReplyText(res) ==
    IF res.t = "obj" /\ res.reply.t = "str" /\ res.reply.s # <<>>
    THEN res.reply.s ELSE <<>>

\* res && Array.isArray(res.learned) && res.learned.length > 0
HasLearned(res) == res.t = "obj" /\ IsNonEmptyArray(res.learned)

-----------------------------------------------------------------------------
(* pages/home/home.js: the suggestion cascade *)

MinPipeParts == 4
HomeHistoryCap == 200
ChatHistoryCap == 200

InitialSuggestion ==
    [t |-> "obj", word |-> Str("..."), topic |-> Str("-"), level |-> Str("-"),
     hint |-> Str("Fetching today's suggestion")]

DefaultHint == Str("Start learning now!")
ParseFailedToast == StrV(Str("Daily suggestion parse failed"))

Fallback(hint) ==
    [t |-> "obj", word |-> Str("Word"), topic |-> Str("General"),
     level |-> Str("All"), hint |-> hint]

\* { word: parts[0], topic: parts[1], level: parts[2], hint: parts.slice(3).join(' | ') }
PipeItem(parts) ==
    [t |-> "obj", word |-> parts[1], topic |-> parts[2], level |-> parts[3],
     hint |-> JoinPipe(SubSeq(parts, 4, Len(parts)))]

\* What one run of the cascade decides: the suggestion shown, whether it is
\* saved to the history, and the toast raised (NoValue when none).
Outcome(item, save, title) == [suggestion |-> item, save |-> save, toast |-> title]

\* Step 2 of the cascade: the first tagged block of the reply, parsed.
BlockList(text) ==
    LET m == MatchBlock(text) IN
    IF m.t = "match" /\ m.g1 # <<>> THEN JSONParse(m.g1) ELSE [t |-> "nomatch"]

\* Step 3 of the cascade.
PipeParts(cleanText) == MapTrim(SplitPipe(cleanText))

\* Cascade with steps 2 and 3 in the wrong order: the pipes are tried before the block.
CascadePipeFirst(res) ==
    IF HasLearned(res) THEN Outcome(res.learned.v[1], TRUE, NoValue)
    ELSE
      LET text == ReplyText(res)
          cleanText == Trim(StripBlocks(text))
          arr == BlockList(text)
          parts == PipeParts(cleanText)
      IN IF Len(parts) >= MinPipeParts THEN Outcome(PipeItem(parts), TRUE, NoValue)
         ELSE IF IsNonEmptyArray(arr) THEN Outcome(arr.v[1], TRUE, NoValue)
         ELSE Outcome(Fallback(IF cleanText # <<>> THEN cleanText ELSE DefaultHint),
                      FALSE, ParseFailedToast)

\* The body of fetchSuggestion's try block once request.post has resolved with res.
Cascade(res) ==
    IF HasLearned(res) THEN Outcome(res.learned.v[1], TRUE, NoValue)
    ELSE
      LET text == ReplyText(res)
          cleanText == Trim(StripBlocks(text))
          arr == BlockList(text)
          parts == PipeParts(cleanText)
      IN IF IsNonEmptyArray(arr) THEN Outcome(arr.v[1], TRUE, NoValue)
         ELSE IF Len(parts) >= MinPipeParts THEN Outcome(PipeItem(parts), TRUE, NoValue)
         ELSE Outcome(Fallback(IF cleanText # <<>> THEN cleanText ELSE DefaultHint),
                      FALSE, ParseFailedToast)

\* A fetchSuggestion whose catch block saves the item it shows.
FetchSuggestionDoneSavesFallback(settled) ==
    IF settled.t = "resolved" THEN Cascade(settled.value)
    ELSE Outcome(Fallback(DefaultHint), TRUE, NoValue)

\* fetchSuggestion after the await: settled is the settled request.post promise.
FetchSuggestionDone(settled) ==
    IF settled.t = "resolved" THEN Cascade(settled.value)
    ELSE Outcome(Fallback(DefaultHint), FALSE, NoValue)

\* { ...item, ts: Date.now() }
Stamp(item, ts) ==
    IF item.t # "obj" THEN [t |-> "obj", ts |-> ts]
    ELSE [f \in (DOMAIN item) \cup {"ts"} |-> IF f = "ts" THEN ts ELSE item[f]]

\* wx.getStorageSync('learning_history') || []: a key never written reads as the
\* empty list, so the absent log is kept as <<>>.
StoredHistory == learning_history

\* list.slice(0, n)
Slice(list, n) == SubSeq(list, 1, IF Len(list) < n THEN Len(list) ELSE n)

\* _saveHistoryItem with push in place of unshift: the item goes to the tail.
SaveHistoryItemListTail(list, item, ts) == Slice(list \o <<Stamp(item, ts)>>, HomeHistoryCap)

\* home page _saveHistoryItem: the list written back, given the list read.
SaveHistoryItemList(list, item, ts) == Slice(<<Stamp(item, ts)>> \o list, HomeHistoryCap)

\* chat page _saveHistory: the list written back, given the list read.
\* items.map(it => ({ ...it, ts: Date.now() }))
StampAll(its, ts) == [i \in 1..Len(its) |-> Stamp(its[i], ts)]

\* _saveHistory with list.concat(withTs): the batch goes behind the existing log.
SaveHistoryListTail(list, its, ts) == Slice(list \o StampAll(its, ts), ChatHistoryCap)

\* _saveHistory without the slice: nothing is evicted.
SaveHistoryListNoCap(list, its, ts) == StampAll(its, ts) \o list

SaveHistoryList(list, its, ts) == Slice(StampAll(its, ts) \o list, ChatHistoryCap)

\* home page _saveHistoryItem(item): a store that throws leaves the log as it was.
SaveHistoryItem(item) ==
    /\ learning_history' =
          IF CanWrite THEN SaveHistoryItemList(StoredHistory, item, now)
          ELSE learning_history
    /\ inserted' = IF CanWrite THEN inserted \o <<1>> ELSE inserted

\* chat page _saveHistory(items)
SaveHistory(its) ==
    /\ learning_history' =
          IF CanWrite THEN SaveHistoryList(StoredHistory, its, now)
          ELSE learning_history
    /\ inserted' = IF CanWrite THEN inserted \o <<Len(its)>> ELSE inserted

\* The effects of fetchSuggestion after the await on the page and the store.
ApplySuggestion(settled) ==
    LET o == FetchSuggestionDone(settled) IN
    /\ suggestion' = o.suggestion
    /\ IF o.save THEN SaveHistoryItem(o.suggestion)
       ELSE UNCHANGED <<learning_history, inserted>>
    /\ toast' = IF o.toast = NoValue THEN toast ELSE o.toast

-----------------------------------------------------------------------------
(* utils/request.js: the endpoint store and the request executor *)

\* URLs are sequences of tokens: scheme, host, port.
Default0 == <<"http://", "127.0.0.1", ":8000">>
Default1 == <<"http://", "localhost", ":8000">>
DEFAULTS == <<Default0, Default1>>

\* url.includes('127.0.0.1')
Includes127(url) == \E i \in 1..Len(url) : url[i] = "127.0.0.1"

\* A getStoredBaseUrl whose catch block returns the other default.
ReadBaseUrlOtherDefault(stored) ==
    IF CanRead /\ stored.t = "str" /\ stored.s # <<>> THEN stored.s
    ELSE IF CanRead THEN DEFAULTS[1] ELSE DEFAULTS[2]

\* getStoredBaseUrl() on a store holding stored under 'BASE_URL': v || DEFAULTS[0],
\* and DEFAULTS[0] when the store throws.
ReadBaseUrl(stored) ==
    IF CanRead /\ stored.t = "str" /\ stored.s # <<>> THEN stored.s ELSE DEFAULTS[1]

GetStoredBaseUrl == ReadBaseUrl(BASE_URL)

\* The value under 'BASE_URL' after setBaseUrl(url) on a store holding stored.
SetBaseUrl(stored, url) == IF CanWrite THEN StrV(url) ELSE stored

\* A withFallback that retries against the endpoint of the first attempt.
AltOfSame(first) == first

\* withFallback: the alternate of the endpoint the first attempt goes to.
AltOf(first) == IF Includes127(first) THEN DEFAULTS[2] ELSE DEFAULTS[1]

StatusOkFrom == 200
StatusOkBelow == 300

\* What wx.request hands back: success(res) with a status and a body, or fail(err).
Response(status, data) == [t |-> "response", statusCode |-> status, data |-> data]
Fail(err) == [t |-> "fail", err |-> err]

\* _wxRequest's success callback resolves on a status in [200, 300).
AttemptOk(resp) ==
    resp.t = "response" /\ resp.statusCode >= StatusOkFrom /\ resp.statusCode < StatusOkBelow

\* The error a failed attempt rejects with.
AttemptError(resp) ==
    IF resp.t = "fail" THEN resp.err
    ELSE [t |-> "Error", message |-> <<"HTTP", resp.statusCode, resp.data>>]

\* A request in flight: withFallback has read the store and issued the first
\* attempt.  sid is the session_id of the body (NoValue when it has none), and
\* attempts lists the attempts answered so far.
NewRequest(kind, sid) ==
    LET first == GetStoredBaseUrl IN
    [kind |-> kind, sid |-> sid, st |-> "first", first |-> first, alt |-> AltOf(first),
     attempts |-> <<>>]

\* The endpoint the attempt in flight of request r goes to.
Target(r) == IF r.st = "first" THEN r.first ELSE r.alt

InFlight(r) == r.st \in {"first", "retry"}

\* A post / get that does not store the endpoint of the attempt that succeeded.
AfterAttemptNoPersist(r, resp) ==
    LET log == Append(r.attempts, [url |-> Target(r), resp |-> resp]) IN
    IF AttemptOk(resp)
    THEN [req |-> [r EXCEPT !.st = "resolved", !.attempts = log],
          settled |-> Resolved(resp.data),
          base |-> BASE_URL]
    ELSE IF r.st = "first"
    THEN [req |-> [r EXCEPT !.st = "retry", !.attempts = log],
          settled |-> NoValue,
          base |-> SetBaseUrl(BASE_URL, r.alt)]
    ELSE [req |-> [r EXCEPT !.st = "rejected", !.attempts = log],
          settled |-> Rejected(AttemptError(resp)),
          base |-> BASE_URL]

\* A withFallback that retries without storing the alternate first.
AfterAttemptNoSwitch(r, resp) ==
    LET log == Append(r.attempts, [url |-> Target(r), resp |-> resp]) IN
    IF AttemptOk(resp)
    THEN [req |-> [r EXCEPT !.st = "resolved", !.attempts = log],
          settled |-> Resolved(resp.data),
          base |-> IF Target(r) # <<>> THEN SetBaseUrl(BASE_URL, Target(r)) ELSE BASE_URL]
    ELSE IF r.st = "first"
    THEN [req |-> [r EXCEPT !.st = "retry", !.attempts = log],
          settled |-> NoValue,
          base |-> BASE_URL]
    ELSE [req |-> [r EXCEPT !.st = "rejected", !.attempts = log],
          settled |-> Rejected(AttemptError(resp)),
          base |-> BASE_URL]

\* A withFallback that rejects with the error of the first attempt.
AfterAttemptFirstError(r, resp) ==
    LET log == Append(r.attempts, [url |-> Target(r), resp |-> resp]) IN
    IF AttemptOk(resp)
    THEN [req |-> [r EXCEPT !.st = "resolved", !.attempts = log],
          settled |-> Resolved(resp.data),
          base |-> IF Target(r) # <<>> THEN SetBaseUrl(BASE_URL, Target(r)) ELSE BASE_URL]
    ELSE IF r.st = "first"
    THEN [req |-> [r EXCEPT !.st = "retry", !.attempts = log],
          settled |-> NoValue,
          base |-> SetBaseUrl(BASE_URL, r.alt)]
    ELSE [req |-> [r EXCEPT !.st = "rejected", !.attempts = log],
          settled |-> Rejected(AttemptError(log[1].resp)),
          base |-> BASE_URL]

\* Request r and the store after wx.request has answered its attempt in flight
\* with resp: [req, settled, base], where settled is NoValue while the request
\* goes on, else what post / get settles with, and base is the value under
\* 'BASE_URL'.
AfterAttempt(r, resp) ==
    LET log == Append(r.attempts, [url |-> Target(r), resp |-> resp]) IN
    IF AttemptOk(resp)
    THEN \* resolve({ data, base }); post: if (res && res.base) setBaseUrl(res.base)
         [req |-> [r EXCEPT !.st = "resolved", !.attempts = log],
          settled |-> Resolved(resp.data),
          base |-> IF Target(r) # <<>> THEN SetBaseUrl(BASE_URL, Target(r)) ELSE BASE_URL]
    ELSE IF r.st = "first"
    THEN \* .catch: setBaseUrl(alt); requestFn(alt)
         [req |-> [r EXCEPT !.st = "retry", !.attempts = log],
          settled |-> NoValue,
          base |-> SetBaseUrl(BASE_URL, r.alt)]
    ELSE \* requestFn(alt).catch(reject)
         [req |-> [r EXCEPT !.st = "rejected", !.attempts = log],
          settled |-> Rejected(AttemptError(resp)),
          base |-> BASE_URL]

-----------------------------------------------------------------------------
(* pages/history/history.js *)

MsPerMinute == 60000

\* fmt(ts): the date and time of ts down to the minute.
Fmt(ts) == [t |-> "time", minute |-> ts \div MsPerMinute]

\* list.map(it => ({ ...it, time: fmt(it.ts) }))
WithTime(list) ==
    [i \in 1..Len(list) |->
        [f \in (DOMAIN list[i]) \cup {"time"} |->
            IF f = "time" THEN Fmt(list[i].ts) ELSE list[i][f]]]

\* load(), reading a store that holds list; a read that throws shows no items.
Load(list) == items' = IF CanRead THEN WithTime(list) ELSE <<>>

\* onShow()
HistoryOnShow == Load(StoredHistory)

\* onClear(): the write is skipped when the store throws, then load() runs.
HistoryOnClear ==
    /\ learning_history' = IF CanWrite THEN <<>> ELSE learning_history
    /\ inserted' = IF CanWrite THEN <<>> ELSE inserted
    /\ Load(IF CanWrite THEN <<>> ELSE StoredHistory)

-----------------------------------------------------------------------------
(* pages/chat/chat.js and the handlers of pages/home/home.js *)

RandomRange == 1000000

\* Math.floor(Math.random() * 1e6): the value the model draws.
RandomValues == {RandomRange - 1}

\* `${Date.now()}-${Math.floor(Math.random() * 1e6)}`
GenSessionId(ts, r) == StrV(<<ts, "-", r>>)

\* _short(id): the segment after the first hyphen, else the last 6 characters.
Short(id) ==
    IF id = NoValue THEN NoValue
    ELSE IF Len(id.s) >= 3 /\ id.s[2] = "-" THEN StrV(<<id.s[3]>>)
    ELSE StrV(SubSeq(id.s, IF Len(id.s) > 6 THEN Len(id.s) - 5 ELSE 1, Len(id.s)))

\* An onLoad that makes a new session id whatever the store holds.
GetOrCreateFresh(stored, ts, r) == GenSessionId(ts, r)

\* The session id onLoad ends with on a store holding stored: the stored one,
\* else a new one.
GetOrCreate(stored, ts, r) == IF stored # NoValue THEN stored ELSE GenSessionId(ts, r)

\* addUser / addBot: the message list after the message is appended.
Message(ts, role, text) ==
    [id |-> <<"m", ts, IF role = "user" THEN "u" ELSE "b">>, role |-> role, text |-> text]

AddMessage(list, ts, role, text) == list \o <<Message(ts, role, text)>>

LastId(ts, role) == StrV(<<"msg-">> \o Message(ts, role, <<>>).id)

\* base.replace('http://', '')
DropScheme(url) == IF url # <<>> /\ Head(url) = "http://" THEN Tail(url) ELSE url

\* The text onSend shows for a reply: the reply without its tagged blocks.
ChatCleaned(res) ==
    LET reply == IF res.t = "obj" /\ res.reply.t = "str" /\ res.reply.s # <<>>
                 THEN res.reply.s ELSE Str("No reply")
    IN Trim(StripBlocks(reply))

SorryText == Str("Sorry, I had trouble reaching the server.")

\* The .then / .catch / .finally of onSend once request.post has settled; base is
\* the value under 'BASE_URL' at that moment.
SendSettled(settled, base) ==
    /\ IF settled.t = "resolved"
       THEN /\ messages' = AddMessage(messages, now, "bot", ChatCleaned(settled.value))
            /\ IF HasLearned(settled.value) THEN SaveHistory(settled.value.learned.v)
               ELSE UNCHANGED <<learning_history, inserted>>
            /\ toast' = toast
       ELSE /\ messages' = AddMessage(messages, now, "bot", SorryText)
            /\ toast' = StrV(<<"Request failed (">> \o ReadBaseUrl(base) \o <<")">>)
            /\ UNCHANGED <<learning_history, inserted>>
    /\ lastMessageId' = LastId(now, "bot")
    /\ sending' = FALSE
    /\ UNCHANGED <<clearing, suggestion>>

\* The .then / .catch / .finally of onClearMemory once request.post has settled.
ResetSettled(settled, base) ==
    /\ IF settled.t = "resolved"
       THEN messages' = <<>> /\ toast' = toast
       ELSE /\ toast' = StrV(<<"Reset failed (">> \o ReadBaseUrl(base) \o <<")">>)
            /\ messages' = messages
    /\ clearing' = FALSE
    /\ UNCHANGED <<lastMessageId, sending, suggestion, learning_history, inserted>>

\* The .then / .catch of onLoad's request.ping().
PingSettled(settled, base) ==
    /\ toast' = IF settled.t = "resolved"
                THEN StrV(<<"Connected: ">> \o DropScheme(ReadBaseUrl(base)))
                ELSE StrV(<<"Server unreachable at ">> \o ReadBaseUrl(base))
    /\ UNCHANGED <<messages, lastMessageId, sending, clearing, suggestion,
                   learning_history, inserted>>

\* fetchSuggestion after the await.
SuggestSettled(settled, base) ==
    /\ ApplySuggestion(settled)
    /\ UNCHANGED <<messages, lastMessageId, sending, clearing>>

\* What the continuations of the pages write.
pageEffects == <<messages, lastMessageId, sending, clearing, suggestion,
                 learning_history, inserted, toast>>

\* The caller's continuation of a settled request; a caller of post / get outside
\* the pages touches none of the pages' state.
Continue(kind, settled, base) ==
    CASE kind = "chat" -> SendSettled(settled, base)
      [] kind = "reset" -> ResetSettled(settled, base)
      [] kind = "ping" -> PingSettled(settled, base)
      [] kind = "suggest" -> SuggestSettled(settled, base)
      [] kind = "caller" -> UNCHANGED pageEffects

-----------------------------------------------------------------------------
(* The state after the mini program is installed and its pages constructed *)

BootPages ==
    /\ BASE_URL = NoValue
    /\ session_id = NoValue
    /\ storeOk = "ok"
    /\ now = 0
    /\ reqs = <<>>
    /\ lastSettled = NoValue
    /\ loaded = {}
    /\ messages = <<>>
    /\ inputText = <<>>
    /\ sending = FALSE
    /\ clearing = FALSE
    /\ lastMessageId = NoValue
    /\ sessionId = NoValue
    /\ sessionShort = NoValue
    /\ suggestion = InitialSuggestion
    /\ items = <<>>
    /\ toast = NoValue
    /\ uncaught = FALSE

BootHistory ==
    /\ learning_history = <<>>
    /\ inserted = <<>>
    /\ histOps = 0

-----------------------------------------------------------------------------
(* Spec: the mini program under user actions and server answers *)

\* The bodies the server answers POST /chat with.
ChatBodies ==
    { Null, Body(StrV(<<"a", SP, OPEN, JList, CLOSE>>), ListV(<<ItemDog>>)) }

\* The bodies the server answers the pages with.
Bodies(kind) == IF kind \in {"chat", "suggest"} THEN ChatBodies ELSE {ObjV}

TransportError == [t |-> "Error", message |-> <<"request:fail">>]

\* What wx.request may answer an attempt of a request of this kind with: to the
\* pages 200 with a body or a transport failure; to a caller of post / get
\* outside the pages also the statuses at the ends of [200, 300).
Responses(kind) ==
    IF kind = "caller"
    THEN {Response(200, StrV(<<"a">>)), Response(299, StrV(<<"b">>)),
          Response(300, Null), Fail(TransportError)}
    ELSE {Response(200, d) : d \in Bodies(kind)} \cup {Fail(TransportError)}

\* The endpoints a caller of the exported setBaseUrl passes.
ExternalUrls == {<<"http://", "127.0.0.1", ":9000">>, <<"http://", "example.com">>}

InputTexts == {<<SP, "hi">>}

Init ==
    /\ BootPages
    /\ BootHistory
    /\ input = NoValue

\* request.post / request.get is called: withFallback issues the first attempt.
Issue(kind, sid) ==
    /\ Len(reqs) < MaxRequests
    /\ reqs' = Append(reqs, NewRequest(kind, sid))

\* Of a settled request only how it ended is kept.
Stub(r) == [st |-> r.st]

\* The first attempt of request i fails: the alternate is stored and tried.
FirstAttemptFails(i) ==
    /\ reqs[i].st = "first"
    /\ \E resp \in Responses(reqs[i].kind) :
          /\ ~AttemptOk(resp)
          /\ LET a == AfterAttempt(reqs[i], resp) IN
             /\ reqs' = [reqs EXCEPT ![i] = a.req]
             /\ BASE_URL' = a.base
    /\ UNCHANGED <<session_id, storeOk, now, lastSettled, loaded, inputText, sessionId,
                   sessionShort, items, uncaught, histOps, input, pageEffects>>

\* What the caller of a settled request saw: the attempts made, what the request
\* settled with, and the endpoint getStoredBaseUrl returns at that moment.
Observed(a) ==
    [attempts |-> a.req.attempts, settled |-> a.settled, stored |-> ReadBaseUrl(a.base)]

\* Request i settles on the answer resp to its attempt in flight: post / get
\* stores the endpoint of a successful attempt, and the caller's continuation runs.
Settles(i, resp) ==
    LET a == AfterAttempt(reqs[i], resp) IN
    /\ a.settled # NoValue
    /\ reqs' = [reqs EXCEPT ![i] = Stub(a.req)]
    /\ BASE_URL' = a.base
    /\ Continue(reqs[i].kind, a.settled, a.base)
    /\ UNCHANGED <<session_id, storeOk, now, loaded, inputText, sessionId,
                   sessionShort, items, uncaught, histOps, input>>

\* An attempt of request i succeeds.
RequestResolves(i) ==
    /\ InFlight(reqs[i])
    /\ \E resp \in Responses(reqs[i].kind) :
          AttemptOk(resp) /\ Settles(i, resp) /\ UNCHANGED lastSettled

\* The retry of request i fails.
RequestRejects(i) ==
    /\ reqs[i].st = "retry"
    /\ \E resp \in Responses(reqs[i].kind) :
          ~AttemptOk(resp) /\ Settles(i, resp) /\ UNCHANGED lastSettled

\* onLoad gets through its store calls: the read returns, and the write, made
\* only when no id is stored, returns.
GetOrCreateReturns == CanRead /\ (session_id # NoValue \/ CanWrite)

\* home page onLoad: create or reuse the session id, then fetchSuggestion.  The
\* store calls are not in a try block: when they throw, onLoad throws.
HomeOnLoad ==
    /\ "home" \notin loaded
    /\ loaded' = loaded \cup {"home"}
    /\ IF GetOrCreateReturns
       THEN /\ \E r \in RandomValues : session_id' = GetOrCreate(session_id, now, r)
            /\ Issue("suggest", session_id')
            /\ uncaught' = FALSE
       ELSE /\ uncaught' = TRUE
            /\ UNCHANGED <<session_id, reqs>>
    /\ UNCHANGED <<BASE_URL, learning_history, storeOk, now, lastSettled, chatPage,
                   suggestion, items, toast, inserted, histOps, input>>

\* chat page onLoad: create or reuse the session id, show it, ping the server.
\* The whole body is in a try block.
ChatOnLoad ==
    /\ "chat" \notin loaded
    /\ loaded' = loaded \cup {"chat"}
    /\ IF GetOrCreateReturns
       THEN /\ \E r \in RandomValues :
                 /\ session_id' = GetOrCreate(session_id, now, r)
                 /\ sessionId' = session_id'
                 /\ sessionShort' = Short(session_id')
            /\ Issue("ping", NoValue)
       ELSE UNCHANGED <<session_id, sessionId, sessionShort, reqs>>
    /\ uncaught' = FALSE
    /\ UNCHANGED <<BASE_URL, learning_history, storeOk, now, lastSettled, messages,
                   inputText, sending, clearing, lastMessageId, suggestion, items,
                   toast, inserted, histOps, input>>

\* onInput
OnInput ==
    /\ "chat" \in loaded
    /\ \E x \in InputTexts : inputText' = x
    /\ UNCHANGED <<storage, storeOk, now, reqs, lastSettled, loaded, messages, sending,
                   clearing, lastMessageId, sessionId, sessionShort, suggestion, items,
                   toast, uncaught, inserted, histOps, input>>

\* onSend with a text that is not blank (a blank one returns at once).
OnSend ==
    /\ "chat" \in loaded
    /\ Trim(inputText) # <<>>
    /\ messages' = AddMessage(messages, now, "user", Trim(inputText))
    /\ lastMessageId' = LastId(now, "user")
    /\ inputText' = <<>>
    /\ sending' = TRUE
    /\ Issue("chat", sessionId)
    /\ UNCHANGED <<storage, storeOk, now, lastSettled, loaded, clearing, sessionId,
                   sessionShort, suggestion, items, toast, uncaught, inserted, histOps,
                   input>>

\* onClearMemory on a page that has a session id (without one it returns at once).
OnClearMemory ==
    /\ "chat" \in loaded
    /\ sessionId # NoValue
    /\ clearing' = TRUE
    /\ Issue("reset", sessionId)
    /\ UNCHANGED <<storage, storeOk, now, lastSettled, loaded, messages, inputText,
                   sending, lastMessageId, sessionId, sessionShort, suggestion, items,
                   toast, uncaught, inserted, histOps, input>>

\* An onNewSession that also empties the learning history.
OnNewSessionClearsHistory ==
    /\ "chat" \in loaded
    /\ \E r \in RandomValues :
          /\ session_id' = GenSessionId(now, r)
          /\ sessionId' = GenSessionId(now, r)
          /\ sessionShort' = Short(GenSessionId(now, r))
    /\ messages' = <<>>
    /\ learning_history' = <<>>
    /\ inserted' = <<>>
    /\ uncaught' = FALSE
    /\ UNCHANGED <<BASE_URL, storeOk, now, reqs, lastSettled, loaded, inputText, sending,
                   clearing, lastMessageId, suggestion, items, toast, histOps, input>>

\* onNewSession: the write is not in a try block, so a store that throws ends
\* the handler before setData.
OnNewSession ==
    /\ "chat" \in loaded
    /\ IF CanWrite
       THEN \E r \in RandomValues :
               /\ session_id' = GenSessionId(now, r)
               /\ sessionId' = GenSessionId(now, r)
               /\ sessionShort' = Short(GenSessionId(now, r))
               /\ messages' = <<>>
               /\ uncaught' = FALSE
       ELSE /\ uncaught' = TRUE
            /\ UNCHANGED <<session_id, sessionId, sessionShort, messages>>
    /\ UNCHANGED <<BASE_URL, learning_history, storeOk, now, reqs, lastSettled, loaded,
                   inputText, sending, clearing, lastMessageId, suggestion, items,
                   toast, inserted, histOps, input>>

\* history page onShow
OnShow ==
    /\ HistoryOnShow
    /\ UNCHANGED <<storage, inserted, storeOk, now, reqs, lastSettled, loaded, chatPage,
                   suggestion, toast, uncaught, histOps, input>>

\* history page onClear
OnClear ==
    /\ HistoryOnClear
    /\ UNCHANGED <<BASE_URL, session_id, storeOk, now, reqs, lastSettled, loaded,
                   chatPage, suggestion, toast, uncaught, histOps, input>>

\* A caller of the module's exported setBaseUrl.
ExportedSetBaseUrl ==
    /\ \E url \in ExternalUrls : BASE_URL' = SetBaseUrl(BASE_URL, url)
    /\ UNCHANGED <<session_id, learning_history, storeOk, now, reqs, lastSettled, loaded,
                   chatPage, suggestion, items, toast, uncaught, inserted, histOps,
                   input>>

\* The clock advances.
Tick ==
    /\ now < MaxClock
    /\ now' = now + 1
    /\ UNCHANGED <<storage, storeOk, reqs, lastSettled, loaded, chatPage, suggestion,
                   items, toast, uncaught, inserted, histOps, input>>

Next ==
    \/ HomeOnLoad
    \/ ChatOnLoad
    \/ OnInput
    \/ OnSend
    \/ OnClearMemory
    \/ OnNewSession
    \/ OnShow
    \/ OnClear
    \/ Tick
    \/ \E i \in 1..Len(reqs) : FirstAttemptFails(i)
    \/ \E i \in 1..Len(reqs) : RequestResolves(i)
    \/ \E i \in 1..Len(reqs) : RequestRejects(i)

Spec == Init /\ [][Next]_vars

\* C7: once a session id is stored, the onLoad of either page ends with that
\* same id (the chat page shows it, the home page sends it with its request),
\* and every step that is not onNewSession leaves the stored id as it is.
C7_SessionIdStable ==
    [][session_id # NoValue =>
          /\ ~OnNewSession => session_id' = session_id
          /\ ChatOnLoad => sessionId' = session_id
          /\ HomeOnLoad => reqs'[Len(reqs')].sid = session_id]_vars

\* Both pages were loaded, the clock has moved on since the id was made, and the
\* request of the home page carries the id the chat page shows.
C7_Witness ==
    /\ loaded = {"home", "chat"}
    /\ session_id # NoValue
    /\ session_id.s[1] < now
    /\ sessionId = session_id
    /\ \E i \in 1..Len(reqs) :
          InFlight(reqs[i]) /\ reqs[i].kind = "suggest" /\ reqs[i].sid = session_id

\* C8: a step of onNewSession, and any step that replaces a stored session id,
\* leaves the page showing the stored id and an empty message list, and leaves
\* the stored learning history and the stored endpoint as they were.
C8_NewSessionFrame ==
    [][(OnNewSession \/ (session_id # NoValue /\ session_id' # session_id)) =>
          /\ session_id' # NoValue
          /\ session_id'.s[1] = now
          /\ sessionId' = session_id'
          /\ sessionShort' = Short(session_id')
          /\ messages' = <<>>
          /\ learning_history' = learning_history
          /\ BASE_URL' = BASE_URL]_vars

\* After a rotation: the session id is newer than the last message the page
\* showed, the message list is empty, and the history and the endpoint stored
\* before are still there.
C8_Witness ==
    /\ lastMessageId # NoValue
    /\ session_id # NoValue
    /\ session_id.s[1] > lastMessageId.s[3]
    /\ sessionId = session_id
    /\ messages = <<>>
    /\ learning_history # <<>>
    /\ BASE_URL # NoValue

\* Request i is a request of this kind whose retry fails in this step.
RetryFails(i, kind) ==
    /\ InFlight(reqs[i])
    /\ reqs[i].kind = kind
    /\ reqs[i].st = "retry"
    /\ reqs'[i].st = "rejected"

\* C12: when a chat send or a memory reset fails, the endpoint named in the
\* failure notice is the endpoint its last attempt failed against, also with
\* other requests in flight.
C12_NoticeNamesFailedEndpoint ==
    [][\A i \in 1..Len(reqs) :
          /\ RetryFails(i, "chat") =>
                toast' = StrV(<<"Request failed (">> \o Target(reqs[i]) \o <<")">>)
          /\ RetryFails(i, "reset") =>
                toast' = StrV(<<"Reset failed (">> \o Target(reqs[i]) \o <<")">>)]_vars

-----------------------------------------------------------------------------
(* SpecChat: the chat page after its onLoad, under overlapping requests *)

\* The chat page has been opened on a fresh install at clock 0 and its ping has
\* been answered by the first default.  reqs lists the requests issued from
\* here on.
ChatInit ==
    /\ storeOk = "ok"
    /\ now = 0
    /\ \E r \in RandomValues :
          /\ session_id = GenSessionId(0, r)
          /\ sessionId = GenSessionId(0, r)
          /\ sessionShort = Short(GenSessionId(0, r))
    /\ BASE_URL = StrV(Default0)
    /\ toast = StrV(<<"Connected: ">> \o DropScheme(Default0))
    /\ loaded = {"chat"}
    /\ reqs = <<>>
    /\ lastSettled = NoValue
    /\ messages = <<>>
    /\ inputText = <<>>
    /\ sending = FALSE
    /\ clearing = FALSE
    /\ lastMessageId = NoValue
    /\ suggestion = InitialSuggestion
    /\ items = <<>>
    /\ uncaught = FALSE
    /\ BootHistory
    /\ input = NoValue

ChatNext ==
    \/ OnInput
    \/ OnSend
    \/ OnClearMemory
    \/ OnNewSession
    \/ Tick
    \/ \E i \in 1..Len(reqs) : FirstAttemptFails(i)
    \/ \E i \in 1..Len(reqs) : RequestResolves(i)
    \/ \E i \in 1..Len(reqs) : RequestRejects(i)

SpecChat == ChatInit /\ [][ChatNext]_vars

\* C14: the ids of the messages in the list are pairwise distinct.
C14_MessageIdsDistinct ==
    \A i, j \in 1..Len(messages) : i # j => messages[i].id # messages[j].id

\* The number of messages of a role among the first n of the list.
CountRole(role, n) == Cardinality({i \in 1..n : messages[i].role = role})

\* C18: every bot message in the list has the user message it answers before it:
\* up to any bot message the list holds at least as many user messages as bot
\* messages, so no reply of a send made before the list was emptied is in it.
C18_NoReplyFromBeforeEmptying ==
    \A n \in 1..Len(messages) :
        messages[n].role = "bot" => CountRole("bot", n) <= CountRole("user", n)

\* A send is in flight.
SendInFlight == \E i \in 1..Len(reqs) : InFlight(reqs[i]) /\ reqs[i].kind = "chat"

\* C19: the sending flag is true exactly when a send is in flight.
C19_SendingIffInFlight == sending <=> SendInFlight

-----------------------------------------------------------------------------
(* SpecFaulty: the mini program on a store that starts and stops throwing *)

\* The store starts or stops throwing on writes, or on reads and writes.
StoreChanges ==
    /\ \E v \in StoreStates \ {storeOk} : storeOk' = v
    /\ UNCHANGED <<storage, now, reqs, lastSettled, loaded, chatPage, suggestion, items,
                   toast, uncaught, inserted, histOps, input>>

FaultyNext == Next \/ StoreChanges

SpecFaulty == Init /\ [][FaultyNext]_vars

\* C13: no page operation ends with an exception of the store that it did not
\* catch.
C13_StoreFailureNeverRaises == ~uncaught

\* C16: after onClear the list the history page shows is empty, also when the
\* write fails, and the stored log is the empty list when the write goes through.
C16_ClearedListIsEmpty ==
    [][OnClear => (items' = <<>> /\ (CanWrite => learning_history' = <<>>))]_vars

-----------------------------------------------------------------------------
(* SpecReq: post / get called by any caller, overlapping, with the exported   *)
(* setBaseUrl called in between                                               *)

\* request.post(path, data) is called.  The method is passed on to wx.request
\* and read nowhere else, so a call of post and one of get are the same request.
CallPost ==
    /\ Issue("caller", NoValue)
    /\ UNCHANGED <<storage, storeOk, now, lastSettled, loaded, chatPage, suggestion,
                   items, toast, uncaught, inserted, histOps, input>>

\* request.get(path) is called.
CallGet ==
    /\ Issue("caller", NoValue)
    /\ UNCHANGED <<storage, storeOk, now, lastSettled, loaded, chatPage, suggestion,
                   items, toast, uncaught, inserted, histOps, input>>

\* An attempt of call i succeeds, and what the caller saw is recorded.
CallResolves(i) ==
    /\ InFlight(reqs[i])
    /\ \E resp \in Responses(reqs[i].kind) :
          /\ AttemptOk(resp)
          /\ Settles(i, resp)
          /\ lastSettled' = Observed(AfterAttempt(reqs[i], resp))

\* The retry of call i fails, and what the caller saw is recorded.
CallRejects(i) ==
    /\ reqs[i].st = "retry"
    /\ \E resp \in Responses(reqs[i].kind) :
          /\ ~AttemptOk(resp)
          /\ Settles(i, resp)
          /\ lastSettled' = Observed(AfterAttempt(reqs[i], resp))

ReqNext ==
    \/ CallPost
    \/ CallGet
    \/ ExportedSetBaseUrl
    \/ \E i \in 1..Len(reqs) : FirstAttemptFails(i)
    \/ \E i \in 1..Len(reqs) : CallResolves(i)
    \/ \E i \in 1..Len(reqs) : CallRejects(i)

SpecReq == Init /\ [][ReqNext]_vars

\* An attempt failed: a transport failure, or a status outside 200..299.
Failed(resp) == resp.t = "fail" \/ resp.statusCode \notin 200..299

\* The call that settled last, as its caller saw it.
Settled == lastSettled # NoValue
Log == lastSettled.attempts

\* C1: a call whose first attempt failed and whose attempt against the alternate
\* succeeded resolves with the body the alternate returned, and when it completes
\* the stored endpoint is the alternate.
C1_FailoverSucceeds ==
    (Settled /\ Len(Log) = 2 /\ Failed(Log[1].resp) /\ ~Failed(Log[2].resp)) =>
        /\ lastSettled.settled = Resolved(Log[2].resp.data)
        /\ Log[2].url \in {Default0, Default1}
        /\ Log[2].url # Log[1].url
        /\ lastSettled.stored = Log[2].url

\* A call failed over on a non-2xx status and resolved against the alternate.
C1_Witness ==
    /\ Settled
    /\ Len(Log) = 2
    /\ Log[1].resp.t = "response"
    /\ ~Failed(Log[2].resp)
    /\ lastSettled.settled = Resolved(Log[2].resp.data)
    /\ lastSettled.stored = Log[2].url

\* C2 as stated: a call whose two attempts both failed rejects with the error of
\* the retry, and the stored endpoint after the call is the alternate.
C2_StoredIsAlternate ==
    (Settled /\ Len(Log) = 2 /\ Failed(Log[1].resp) /\ Failed(Log[2].resp)) =>
        /\ lastSettled.settled = Rejected(AttemptError(Log[2].resp))
        /\ lastSettled.stored = Log[2].url

\* C2, amended: the step in which the first attempt of a call fails stores the
\* alternate; the step in which its retry fails rejects the call with the error
\* of the retry and writes nothing to the store.  So the stored endpoint after
\* the call is the alternate unless another call or a caller of setBaseUrl
\* wrote the store while the retry was in flight.
C2_BothFail ==
    [][\A i \in 1..Len(reqs) :
          /\ (reqs[i].st = "first" /\ reqs'[i].st = "retry") =>
                /\ BASE_URL' = StrV(reqs[i].alt)
                /\ reqs[i].alt \in {Default0, Default1}
                /\ reqs[i].alt # reqs[i].first
          /\ (reqs[i].st = "retry" /\ reqs'[i].st = "rejected") =>
                /\ BASE_URL' = BASE_URL
                /\ Len(lastSettled'.attempts) = 2
                /\ lastSettled'.attempts[1] = reqs[i].attempts[1]
                /\ Failed(lastSettled'.attempts[1].resp)
                /\ Failed(lastSettled'.attempts[2].resp)
                /\ lastSettled'.settled =
                      Rejected(AttemptError(lastSettled'.attempts[2].resp))]_vars

\* A call was rejected with the error of its retry, which is not the error of its
\* first attempt, and the stored endpoint is its alternate.
C2_Witness ==
    /\ Settled
    /\ Len(Log) = 2
    /\ lastSettled.settled = Rejected(AttemptError(Log[2].resp))
    /\ AttemptError(Log[1].resp) # AttemptError(Log[2].resp)
    /\ lastSettled.stored = Log[2].url

\* C3: a call makes at most two attempts; the second is made only after the first
\* has failed and goes to one of the two defaults, never to the endpoint of the
\* first; a first attempt that succeeds is the only one.
C3_AtMostTwoAttempts ==
    /\ \A i \in 1..Len(reqs) :
          /\ reqs[i].st = "first" => reqs[i].attempts = <<>>
          /\ reqs[i].st = "retry" =>
                /\ Len(reqs[i].attempts) = 1
                /\ Failed(reqs[i].attempts[1].resp)
                /\ Target(reqs[i]) \in {Default0, Default1}
                /\ Target(reqs[i]) # reqs[i].attempts[1].url
    /\ Settled =>
          /\ Len(Log) \in {1, 2}
          /\ ~Failed(Log[1].resp) => Len(Log) = 1
          /\ Len(Log) = 2 =>
                /\ Failed(Log[1].resp)
                /\ Log[2].url \in {Default0, Default1}
                /\ Log[2].url # Log[1].url

\* A call that started on an endpoint outside the defaults made its two attempts
\* while another call is in its retry.
C3_Witness ==
    /\ Settled
    /\ Len(Log) = 2
    /\ Log[1].url \notin {Default0, Default1}
    /\ \E i \in 1..Len(reqs) : reqs[i].st = "retry"

\* No request issued before this step other than i moves in it.
OthersWait(i) == \A j \in 1..Len(reqs) : j # i => reqs'[j] = reqs[j]

\* C17: the step in which the first attempt of a call fails leaves the call in
\* its retry with the alternate already stored; and while the retry is in
\* flight the stored endpoint stays the alternate in every step in which no
\* other request moves and setBaseUrl is not called from outside.
C17_SwitchBeforeRetry ==
    [][\A i \in 1..Len(reqs) :
          /\ (reqs[i].st = "first" /\ reqs'[i].st = "retry") =>
                /\ Target(reqs'[i]) = reqs[i].alt
                /\ Target(reqs'[i]) # reqs[i].first
                /\ BASE_URL' = StrV(Target(reqs'[i]))
          /\ (/\ reqs[i].st = "retry"
              /\ reqs'[i].st = "retry"
              /\ BASE_URL = StrV(Target(reqs[i]))
              /\ OthersWait(i)
              /\ ~ExportedSetBaseUrl) => BASE_URL' = StrV(Target(reqs[i]))]_vars

\* C17 witness: the only call issued is in its retry, and the stored endpoint is
\* the alternate, not the endpoint the call started on.
C17_Witness ==
    /\ Len(reqs) = 1
    /\ reqs[1].st = "retry"
    /\ lastSettled = NoValue
    /\ BASE_URL = StrV(reqs[1].alt)
    /\ BASE_URL # StrV(reqs[1].first)

\* C4: the endpoint getStoredBaseUrl returns is one of the two defaults.
C4_EndpointIsDefault == GetStoredBaseUrl \in {Default0, Default1}

-----------------------------------------------------------------------------
(* SpecReqFaulty: post / get and setBaseUrl on a store that starts and stops  *)
(* throwing                                                                   *)

ReqFaultyNext == ReqNext \/ StoreChanges

SpecReqFaulty == Init /\ [][ReqFaultyNext]_vars

\* C15: getStoredBaseUrl returns the stored endpoint when one is stored and can
\* be read, and the first default when the key is absent or the read throws; no
\* exception of the store leaves setBaseUrl or a request; and a settled call made
\* its retry exactly when its first attempt failed, and resolved with the body of
\* its last attempt when that succeeded, else rejected with its error, whatever
\* the store did with the writes.
C15_StoreFailuresTolerated ==
    /\ GetStoredBaseUrl =
          IF storeOk # "down" /\ BASE_URL # NoValue THEN BASE_URL.s ELSE Default0
    /\ ~uncaught
    /\ Settled =>
          /\ Len(Log) = (IF Failed(Log[1].resp) THEN 2 ELSE 1)
          /\ Len(Log) = 2 => Log[2].url \in {Default0, Default1} \ {Log[1].url}
          /\ lastSettled.settled =
                IF Failed(Log[Len(Log)].resp)
                THEN Rejected(AttemptError(Log[Len(Log)].resp))
                ELSE Resolved(Log[Len(Log)].resp.data)

\* C15 witness: a call failed over and resolved against the alternate while the
\* store rejected the writes: the stored endpoint is not the one that answered.
C15_Witness ==
    /\ Settled
    /\ Len(Log) = 2
    /\ ~Failed(Log[2].resp)
    /\ lastSettled.settled = Resolved(Log[2].resp.data)
    /\ lastSettled.stored # Log[2].url
    /\ storeOk = "nowrite"

-----------------------------------------------------------------------------
(* SpecNorm: fetchSuggestion on every server response of a bounded shape *)

\* The pieces a reply is put together from: a word, a blank, a pipe, a stray
\* opening or closing tag, and tagged blocks around a list, a list holding null,
\* an empty list and an object.
Parts ==
    { <<"a">>, <<SP>>, <<PIPE>>, <<OPEN>>, <<CLOSE>>,
      <<OPEN, JList, CLOSE>>, <<OPEN, JListNull, CLOSE>>,
      <<OPEN, JEmpty, CLOSE>>, <<OPEN, JObject, CLOSE>> }

\* The text made of the pieces ps.
RECURSIVE Concat(_)
Concat(ps) == IF ps = <<>> THEN <<>> ELSE Head(ps) \o Concat(Tail(ps))

LearnedValues ==
    {NoValue, ObjV, ListV(<<>>), ListV(<<ItemDog>>), ListV(<<ItemDog, ItemCat>>),
     ListV(<<Null>>)}

\* request.post has settled with x.
NormGiven(x) == input = [settled |-> x, done |-> FALSE]

\* The learning history when the fetch starts: empty, or one entry saved before.
PriorHistories == {<<>>, <<Stamp(ItemCat, 0)>>}

\* The request fails, or resolves with null, or with a body without a reply, or
\* with a body whose reply is made of up to MaxParts pieces.
NormInit ==
    /\ BootPages
    /\ histOps = 0
    /\ \E h \in PriorHistories :
          /\ learning_history = h
          /\ inserted = [k \in 1..Len(h) |-> 1]
    /\ \/ NormGiven(Rejected(Str("fail")))
       \/ NormGiven(Resolved(Null))
       \/ \E l \in LearnedValues : NormGiven(Resolved(Body(NoValue, l)))
       \/ \E n \in 0..MaxParts : \E ps \in [1..n -> Parts] : \E l \in LearnedValues :
             NormGiven(Resolved(Body(StrV(Concat(ps)), l)))

\* The continuation of fetchSuggestion once request.post has settled.
NormFetch ==
    /\ ~input.done
    /\ ApplySuggestion(input.settled)
    /\ input' = [input EXCEPT !.done = TRUE]
    /\ UNCHANGED <<BASE_URL, session_id, storeOk, now, reqs, lastSettled, loaded,
                   chatPage, items, uncaught, histOps>>

NormNext == NormFetch

SpecNorm == NormInit /\ [][NormNext]_vars

\* The run of fetchSuggestion has ended.
NormDone == input # NoValue /\ input.done

\* The number of pipe-separated segments of a text.
Segments(x) == Cardinality({i \in 1..Len(x) : x[i] = PIPE}) + 1

\* The reply of the response the run was given, and its block-stripped text.
NormRes == input.settled.value
NormText == ReplyText(NormRes)
NormClean == Trim(StripBlocks(NormText))

\* The first tagged block of the reply parses to a non-empty list.
NormBlockOk ==
    /\ MatchBlock(NormText) # NoValue
    /\ IsNonEmptyArray(JSONParse(MatchBlock(NormText).g1))

\* C9 (as claimed): for every server response, and for a failed request,
\* fetchSuggestion ends with a suggestion item that is not null.
C9_SuggestionNonNull == NormDone => suggestion # Null

\* C10: the cascade branches are tried in a fixed order and the first that
\* succeeds wins: (1) a non-empty learned list yields its first element whatever
\* the reply; (2) else the first tagged block, when it parses to a non-empty
\* list, yields its first element whatever the pipes; (3) else at least 4
\* pipe-separated segments of the block-stripped text yield word, topic, level
\* and hint = segments 4.. joined by " | "; (4) else the fixed fallback.  A block
\* that fails to parse, or parses to an empty list or a non-list, goes on to (3).
C10_CascadeOrder ==
    (NormDone /\ input.settled.t = "resolved") =>
        IF HasLearned(NormRes) THEN suggestion = NormRes.learned.v[1]
        ELSE IF NormBlockOk THEN suggestion = JSONParse(MatchBlock(NormText).g1).v[1]
        ELSE IF Segments(NormClean) >= 4
             THEN LET seg == PipeParts(NormClean) IN
                  /\ suggestion.word = seg[1]
                  /\ suggestion.topic = seg[2]
                  /\ suggestion.level = seg[3]
                  /\ suggestion.hint = JoinPipe(SubSeq(seg, 4, Len(seg)))
        ELSE /\ suggestion.word = Str("Word")
             /\ suggestion.topic = Str("General")
             /\ suggestion.level = Str("All")

\* C10 witness: a reply whose tagged block parses to a non-empty list and whose
\* remaining text has at least 4 pipe segments ended with the block's first element.
C10_Witness ==
    /\ NormDone
    /\ input.settled.t = "resolved"
    /\ ~HasLearned(NormRes)
    /\ NormBlockOk
    /\ Segments(NormClean) >= 4
    /\ suggestion = ItemCat

\* The response has a non-empty learned list, or a first tagged block that parses
\* to a non-empty list, or at least 4 pipe segments: one of branches 1 to 3 takes it.
NormAccepted ==
    /\ input.settled.t = "resolved"
    /\ (HasLearned(NormRes) \/ NormBlockOk \/ Segments(NormClean) >= 4)

\* C20: a suggestion fetch that ends in one of branches 1 to 3 adds exactly one
\* entry to the learning history, the item it shows with its time stamp, ahead
\* of the entries already there; one that ends in the fixed fallback of branch
\* 4, or in the fallback of a failed request, leaves the history as it was.
C20_OnlyAcceptedItemsSaved ==
    [][NormFetch =>
          IF NormAccepted
          THEN learning_history' = <<Stamp(suggestion', now)>> \o learning_history
          ELSE /\ learning_history' = learning_history
               /\ suggestion'.word = Str("Word")]_vars

\* C20 witness: a reply with text but fewer than 4 segments and no usable block
\* ended in the fixed fallback with the parse notice, and the history still
\* holds the one entry it held before.
C20_Witness ==
    /\ NormDone
    /\ input.settled.t = "resolved"
    /\ NormClean # <<>>
    /\ suggestion = Fallback(NormClean)
    /\ toast = ParseFailedToast
    /\ learning_history = <<Stamp(ItemCat, 0)>>

-----------------------------------------------------------------------------
(* SpecHist: the learning history under saves from both flows and clears *)

\* The j-th item of the k-th save since the log was last empty.
NewItem(k, j) == [t |-> "obj", word |-> <<k, j>>]

NewBatch(k, n) == [j \in 1..n |-> NewItem(k, j)]

\* The log after the suggestion-flow saves numbered k..n, in that order, into a
\* store holding list.  The run of saves is split in halves, and Len(list) has
\* the list so far evaluated before the rest, to keep the evaluation shallow.
RECURSIVE FillFrom(_, _, _)
FillFrom(list, k, n) ==
    IF Len(list) >= 0 /\ k > n THEN list
    ELSE IF k = n THEN SaveHistoryItemList(list, NewItem(k, 1), 0)
    ELSE LET mid == (k + n) \div 2 IN FillFrom(FillFrom(list, k, mid), mid + 1, n)

\* The log after n suggestion-flow saves into an empty store.
Filled(n) == FillFrom(<<>>, 1, n)

\* Sizes of the learned lists the chat flow saves.
BatchSizes == {1, 2, 10, ChatHistoryCap + 1}

\* Numbers of suggestions already saved when the run starts.
FilledSizes == {0, 1, HomeHistoryCap - 1, HomeHistoryCap}

HistInit ==
    /\ BootPages
    /\ input = NoValue
    /\ histOps = 0
    /\ \E n \in FilledSizes :
          /\ learning_history = Filled(n)
          /\ inserted = [k \in 1..n |-> 1]

\* The suggestion flow saves one item.
HistSaveItem ==
    /\ histOps < MaxHistOps
    /\ histOps' = histOps + 1
    /\ SaveHistoryItem(NewItem(Len(inserted) + 1, 1))
    /\ UNCHANGED <<BASE_URL, session_id, storeOk, now, reqs, lastSettled, loaded,
                   chatPage, suggestion, items, toast, uncaught, input>>

\* The chat flow saves the learned list of one reply.
HistSaveBatch ==
    /\ histOps < MaxHistOps
    /\ histOps' = histOps + 1
    /\ \E n \in BatchSizes : SaveHistory(NewBatch(Len(inserted) + 1, n))
    /\ UNCHANGED <<BASE_URL, session_id, storeOk, now, reqs, lastSettled, loaded,
                   chatPage, suggestion, items, toast, uncaught, input>>

\* The history page is shown.
HistShow ==
    /\ histOps < MaxHistOps
    /\ histOps' = histOps + 1
    /\ HistoryOnShow
    /\ UNCHANGED <<storage, inserted, storeOk, now, reqs, lastSettled, loaded, chatPage,
                   suggestion, toast, uncaught, input>>

\* The user clears the history.
HistClear ==
    /\ histOps < MaxHistOps
    /\ histOps' = histOps + 1
    /\ HistoryOnClear
    /\ UNCHANGED <<BASE_URL, session_id, storeOk, now, reqs, lastSettled, loaded,
                   chatPage, suggestion, toast, uncaught, input>>

HistNext == HistSaveItem \/ HistSaveBatch \/ HistShow \/ HistClear

SpecHist == HistInit /\ [][HistNext]_vars

\* The sum of sizes[lo..hi], by halves.
RECURSIVE SumRange(_, _, _)
SumRange(sizes, lo, hi) ==
    IF lo > hi THEN 0
    ELSE IF lo = hi THEN sizes[lo]
    ELSE LET mid == (lo + hi) \div 2 IN
         SumRange(sizes, lo, mid) + SumRange(sizes, mid + 1, hi)

Sum(sizes) == SumRange(sizes, 1, Len(sizes))

\* The items the log holds, each named <<k, j>>: the j-th item of the k-th save
\* since the log was last empty.
KeptItems == {StoredHistory[i].word : i \in 1..Len(StoredHistory)}

\* The number of items of the k-th save that the log still holds.
KeptOf(k) == Cardinality({e \in KeptItems : e[1] = k})

\* C5: after any sequence of chat-flow saves (a batch of any size), suggestion-flow
\* saves and history clears, the persisted learning history holds at most 200 entries.
C5_HistoryCapped == Len(StoredHistory) <= 200

\* C5 witness: a chat-flow save of a batch larger than the cap left 200 entries.
C5_Witness ==
    /\ inserted # <<>>
    /\ inserted[Len(inserted)] > 200
    /\ Len(StoredHistory) = 200

\* C6: once more than 200 items have been saved into an initially empty log, the
\* log holds exactly 200 distinct entries, and they are the most recently
\* inserted: every save later than the oldest save with a kept entry is kept
\* whole, so each dropped entry is at least as old as every kept one.
C6_KeepsNewest ==
    Sum(inserted) > 200 =>
        /\ Len(StoredHistory) = 200
        /\ Cardinality(KeptItems) = 200
        /\ \A e \in KeptItems : e[1] \in 1..Len(inserted) /\ e[2] \in 1..inserted[e[1]]
        /\ LET keptSaves == {e[1] : e \in KeptItems}
               oldestKept == CHOOSE m \in keptSaves : \A x \in keptSaves : m <= x
           IN \A k \in (oldestKept + 1)..Len(inserted) : KeptOf(k) = inserted[k]

\* The number of the latest save, and the number of items it saved.
LastSave == Len(inserted')
LastSize == inserted'[LastSave]

\* The log after the step is the items of the latest save in their order, then
\* the log before the step, cut at the cap.
LatestAtHead ==
    /\ Len(learning_history') =
          IF Len(learning_history) + LastSize < 200 THEN Len(learning_history) + LastSize
          ELSE 200
    /\ \A i \in 1..Len(learning_history') :
          IF i <= LastSize THEN learning_history'[i].word = <<LastSave, i>>
          ELSE learning_history'[i] = learning_history[i - LastSize]

\* The log after the step is the log before the step, then the items of the
\* latest save in their order, cut at the cap.
LatestAtTail ==
    \A i \in 1..Len(learning_history') :
        IF i <= Len(learning_history) THEN learning_history'[i] = learning_history[i]
        ELSE learning_history'[i].word = <<LastSave, i - Len(learning_history)>>

\* C11 as stated: a chat-flow save puts its items at the tail of the log, behind
\* all existing entries; a suggestion-flow save puts its item at the head.
C11_ChatTailSuggestionHead ==
    [][(HistSaveBatch => LatestAtTail) /\ (HistSaveItem => LatestAtHead)]_vars

\* C11, amended: both flows put what they save at the head of the log, before
\* all existing entries: the chat flow its learned items in their order, the
\* suggestion flow its one item.
C11_BothAtHead ==
    [][(HistSaveBatch \/ HistSaveItem) => LatestAtHead]_vars

\* C11 witness: the latest save was a chat batch of 2 into a log that held
\* entries; the batch is at the head and an older entry follows it.
C11_Witness ==
    /\ Len(inserted) >= 2
    /\ inserted[Len(inserted)] = 2
    /\ Len(StoredHistory) >= 3
    /\ StoredHistory[1].word = <<Len(inserted), 1>>
    /\ StoredHistory[2].word = <<Len(inserted), 2>>
    /\ StoredHistory[3].word[1] < Len(inserted)

\* C6 witness: 210 items saved, by the suggestion flow and by a chat batch of 10,
\* and 200 kept.
C6_Witness ==
    /\ Sum(inserted) = 210
    /\ \E k \in 1..Len(inserted) : inserted[k] = 10
    /\ \E k \in 1..Len(inserted) : inserted[k] = 1
    /\ Len(StoredHistory) = 200

====
